---- MODULE Spec2Model ----
(***************************************************************************)
(* A model of app.py: the daily scraper that reads one ranked table,       *)
(* normalises each row and stores the batch in spotify_records.            *)
(*                                                                         *)
(* Texts are sequences of one-character strings over Alphabet.  No text    *)
(* over it spells "inf", "nan", a sign, an underscore or an exponent, so   *)
(* Python's float() and int() accept exactly the plain decimal numerals    *)
(* PyFloat and PyIntText accept, and "July" is the one month name it       *)
(* spells.  A float is the binary64 value [m, e] = m * 2^e with m odd, a   *)
(* natural number of any size (0 is m = <<>>, e = 0); the texts are too    *)
(* short for an infinite or a subnormal value.  An optional value is a     *)
(* sequence: None is <<>>, a value v is <<v>>.  The collection date of a   *)
(* record is the number of the day, a parsed record date is                *)
(* <<year, month, day>>; a clock value counts half-days, the second half   *)
(* of a day starting at 15:00.                                             *)
(***************************************************************************)
EXTENDS Integers, Sequences, FiniteSets, Bags

\* ------------------------------------------------------------------ bounds

\* The last clock value (half-days): days 0 .. MaxTick \div 2.
MaxTick == 2

\* The longest table (data rows) a fetched page holds.
MaxRows == 2

\* ------------------------------------------------------------------- texts

None == <<>>

Some(v) == <<v>>

Digit == {"0", "1", "2", "3", "4", "5", "6", "7", "8", "9"}

Upper == {"B", "J", "M", "S", "T", "Z"}

Letter == Upper \cup {"b", "i", "j", "l", "m", "n", "o", "s", "t", "u", "x",
                      "y", "z"}

Alphabet == Digit \cup Letter \cup {" ", ".", ",", "[", "]", "\""}

DigitVal(c) ==
    CASE c = "0" -> 0 [] c = "1" -> 1 [] c = "2" -> 2 [] c = "3" -> 3
      [] c = "4" -> 4 [] c = "5" -> 5 [] c = "6" -> 6 [] c = "7" -> 7
      [] c = "8" -> 8 [] c = "9" -> 9

Tail2(s, n) == SubSeq(s, n + 1, Len(s))

\* str.lstrip() / str.rstrip() / str.strip(): the only whitespace is " ".
RECURSIVE LStrip(_)
LStrip(s) == IF s # <<>> /\ Head(s) = " " THEN LStrip(Tail(s)) ELSE s

RECURSIVE RStrip(_)
RStrip(s) ==
    IF s # <<>> /\ s[Len(s)] = " " THEN RStrip(SubSeq(s, 1, Len(s) - 1)) ELSE s

Strip(s) == RStrip(LStrip(s))

StartsWith(s, sub) ==
    Len(sub) <= Len(s) /\ SubSeq(s, 1, Len(sub)) = sub

\* sub in s
RECURSIVE Contains(_, _)
Contains(s, sub) ==
    IF Len(s) < Len(sub) THEN FALSE
    ELSE StartsWith(s, sub) \/ Contains(Tail(s), sub)

\* s.replace(sub, ''): non-overlapping occurrences, left to right.
RECURSIVE Remove(_, _)
Remove(s, sub) ==
    IF s = <<>> THEN <<>>
    ELSE IF StartsWith(s, sub) THEN Remove(Tail2(s, Len(sub)), sub)
    ELSE <<Head(s)>> \o Remove(Tail(s), sub)

\* s.split('[')[0]
RECURSIVE BeforeBracket(_)
BeforeBracket(s) ==
    IF s = <<>> \/ Head(s) = "[" THEN <<>>
    ELSE <<Head(s)>> \o BeforeBracket(Tail(s))

LowerChar(c) ==
    CASE c = "B" -> "b" [] c = "J" -> "j" [] c = "M" -> "m" [] c = "S" -> "s"
      [] c = "T" -> "t" [] c = "Z" -> "z" [] OTHER -> c

\* s.split(): the runs of s between its spaces.
RECURSIVE Split(_)
Split(s) ==
    LET t == LStrip(s)
        n == IF \E i \in 1..Len(t) : t[i] = " "
             THEN (CHOOSE i \in 1..Len(t) :
                       t[i] = " " /\ \A j \in 1..(i - 1) : t[j] # " ") - 1
             ELSE Len(t)
    IN  IF t = <<>> THEN <<>>
        ELSE <<SubSeq(t, 1, n)>> \o Split(Tail2(t, n))

\* s.lower()
Lower(s) == [i \in 1..Len(s) |-> LowerChar(s[i])]

\* ----------------------------------------------------------- float values

\* A natural number of any size is the sequence of its digits in base Base,
\* the lowest first and the highest not 0; <<>> is 0.
LimbBits == 15

Base == 32768

\* The bits of the significand of a float (an IEEE 754 binary64).
Precision == 53

RECURSIVE Pow2(_)
Pow2(n) == IF n = 0 THEN 1 ELSE 2 * Pow2(n - 1)

\* How many bits n has; how many 0 bits end n > 0.
RECURSIVE Bits(_)
Bits(n) == IF n = 0 THEN 0 ELSE 1 + Bits(n \div 2)

RECURSIVE TrailingZeros(_)
TrailingZeros(n) == IF n % 2 = 1 THEN 0 ELSE 1 + TrailingZeros(n \div 2)

BitLen(x) == IF x = <<>> THEN 0 ELSE LimbBits * (Len(x) - 1) + Bits(x[Len(x)])

\* x * c + carry, for c and carry below Base.
RECURSIVE MulSmall(_, _, _)
MulSmall(x, c, carry) ==
    IF x = <<>> THEN (IF carry = 0 THEN <<>> ELSE <<carry>>)
    ELSE LET p == Head(x) * c + carry
         IN  <<p % Base>> \o MulSmall(Tail(x), c, p \div Base)

\* x divided by c, 0 < c <= Base: the quotient q and the remainder r.
RECURSIVE DivSmall(_, _)
DivSmall(x, c) ==
    IF x = <<>> THEN [q |-> <<>>, r |-> 0]
    ELSE LET hi == DivSmall(Tail(x), c)
             cur == hi.r * Base + Head(x)
         IN  [q |-> IF hi.q = <<>> /\ cur < c THEN <<>>
                    ELSE <<cur \div c>> \o hi.q,
              r |-> cur % c]

\* x + 1
RECURSIVE AddOne(_)
AddOne(x) ==
    IF x = <<>> THEN <<1>>
    ELSE IF Head(x) + 1 < Base THEN <<Head(x) + 1>> \o Tail(x)
    ELSE <<0>> \o AddOne(Tail(x))

\* x without its k lowest bits (q), and whether one of them was 1 (lost).
ShiftRight(x, k) ==
    LET n == IF k \div LimbBits < Len(x) THEN k \div LimbBits ELSE Len(x)
        d == DivSmall(Tail2(x, n), Pow2(k % LimbBits))
    IN  [q |-> d.q, lost |-> d.r # 0 \/ \E i \in 1..n : x[i] # 0]

\* x as a number of the model (x below 2^31).
RECURSIVE ToNat(_)
ToNat(x) == IF x = <<>> THEN 0 ELSE Head(x) + Base * ToNat(Tail(x))

\* The float m * 2^e as the record that stands for it.
RECURSIVE Canon(_, _)
Canon(m, e) ==
    IF m = <<>> THEN [m |-> <<>>, e |-> 0]
    ELSE IF Head(m) = 0 THEN Canon(Tail(m), e + LimbBits)
    ELSE LET t == TrailingZeros(Head(m))
         IN  [m |-> DivSmall(m, Pow2(t)).q, e |-> e + t]

\* The float nearest to (q + rest) * 2^e, a tie going to the even significand,
\* where 0 <= rest < 1 and rest # 0 exactly if sticky (then q has more than
\* Precision bits).
Round(q, sticky, e) ==
    LET k == BitLen(q) - Precision
        cut == ShiftRight(q, k - 1)
        half == DivSmall(cut.q, 2)
        odd == Head(half.q) % 2 = 1
        up == half.r = 1 /\ (sticky \/ cut.lost \/ odd)
    IN  IF k <= 0 THEN Canon(q, e)
        ELSE Canon(IF up THEN AddOne(half.q) ELSE half.q, e + k)

\* The value of a digit string read as a natural number.
RECURSIVE DigitsVal(_)
DigitsVal(s) ==
    IF s = <<>> THEN 0
    ELSE 10 * DigitsVal(SubSeq(s, 1, Len(s) - 1)) + DigitVal(s[Len(s)])

\* The same, of any size.
RECURSIVE DigitsNat(_)
DigitsNat(s) ==
    IF s = <<>> THEN <<>>
    ELSE MulSmall(DigitsNat(SubSeq(s, 1, Len(s) - 1)), 10, DigitVal(s[Len(s)]))

\* x * 10^n
RECURSIVE MulPow10(_, _)
MulPow10(x, n) ==
    IF n = 0 THEN x
    ELSE IF n >= 4 THEN MulPow10(MulSmall(x, 10000, 0), n - 4)
    ELSE MulPow10(MulSmall(x, 10, 0), n - 1)

\* x divided by 10^n: the quotient q, and whether the remainder is not 0 (lost).
RECURSIVE DivPow10(_, _)
DivPow10(x, n) ==
    IF n = 0 THEN [q |-> x, lost |-> FALSE]
    ELSE LET d == IF n >= 4 THEN DivSmall(x, 10000) ELSE DivSmall(x, 10)
             rest == DivPow10(d.q, IF n >= 4 THEN n - 4 ELSE n - 1)
         IN  [q |-> rest.q, lost |-> rest.lost \/ d.r # 0]

AllDigits(s) == \A i \in 1..Len(s) : s[i] \in Digit

\* The position of the first "." of s, 0 when it has none.
DotAt(s) ==
    IF \E i \in 1..Len(s) : s[i] = "."
    THEN CHOOSE i \in 1..Len(s) : s[i] = "." /\ \A j \in 1..(i - 1) : s[j] # "."
    ELSE 0

\* The float nearest to the decimal of integer digits ip and fraction digits
\* fp: the quotient of ip fp * Base^n by 10^Len(fp) has more than Precision
\* bits for n = 5 + Len(fp) \div 4, and is rounded.
Nearest(ip, fp) ==
    LET n == IF fp = <<>> THEN 0 ELSE 5 + Len(fp) \div 4
        num == DigitsNat(ip \o fp)
        quot == DivPow10([i \in 1..n |-> 0] \o num, Len(fp))
    IN  IF num = <<>> THEN Canon(<<>>, 0)
        ELSE Round(quot.q, quot.lost, 0 - LimbBits * n)

\* float(s) of Python: surrounding whitespace is dropped, then digits with at
\* most one "." and at least one digit.  None stands for ValueError.
PyFloat(s) ==
    LET t == Strip(s)
        d == DotAt(t)
        ip == IF d = 0 THEN t ELSE SubSeq(t, 1, d - 1)
        fp == IF d = 0 THEN <<>> ELSE Tail2(t, d)
    IN  IF AllDigits(ip) /\ AllDigits(fp) /\ Len(ip) + Len(fp) > 0
        THEN Some(Nearest(ip, fp))
        ELSE None

\* int(s) of Python on a text without whitespace: None stands for ValueError.
PyIntText(s) == IF s # <<>> /\ AllDigits(s) THEN Some(DigitsVal(s)) ELSE None

\* int(x) of a float: truncation (the values are never negative).
PyInt(f) ==
    IF f.e >= 0 THEN ToNat(f.m) * Pow2(f.e)
    ELSE ToNat(ShiftRight(f.m, 0 - f.e).q)

\* x * 1e9, x * 1e6: the exact product (10^n is a float), rounded.
Times10(f, n) == Round(MulPow10(f.m, n), FALSE, f.e)

\* ------------------------------------------------------- field normalisers

\* safe_int(value): value is an optional text (None at a missing column).
safe_int(value) ==
    IF value = None \/ value[1] = <<>> THEN None
    ELSE LET f == PyFloat(Remove(Strip(value[1]), <<",">>))
         IN  IF f = None THEN None ELSE Some(PyInt(f[1]))

\* safe_float(value)
safe_float(value) ==
    IF value = None \/ value[1] = <<>> THEN None
    ELSE PyFloat(Remove(Strip(value[1]), <<",">>))

\* re.sub(r'\[.*\]', '', s): the greedy match runs from the first "[" to the
\* last "]".
StripRefs(s) ==
    LET opens == {i \in 1..Len(s) : s[i] = "["}
        closes == {i \in 1..Len(s) : s[i] = "]"}
        from == CHOOSE i \in opens : \A j \in opens : i <= j
        to == CHOOSE i \in closes : \A j \in closes : j <= i
    IN  IF opens # {} /\ closes # {} /\ from < to
        THEN SubSeq(s, 1, from - 1) \o Tail2(s, to)
        ELSE s

\* r'\b(19|20)\d{2}\b' matches s at position i.
YearAt(s, i) ==
    /\ i + 3 <= Len(s)
    /\ <<s[i], s[i + 1]>> \in {<<"1", "9">>, <<"2", "0">>}
    /\ s[i + 2] \in Digit
    /\ s[i + 3] \in Digit
    /\ (i = 1 \/ s[i - 1] \notin Digit \cup Letter)
    /\ (i + 3 = Len(s) \/ s[i + 4] \notin Digit \cup Letter)

\* parse_year(year_text)
parse_year(year_text) ==
    IF year_text = <<>> THEN None
    ELSE LET t == Strip(StripRefs(year_text))
             hits == {i \in 1..Len(t) : YearAt(t, i)}
             at == CHOOSE i \in hits : \A j \in hits : i <= j
             date_parts == Split(t)
         IN  IF hits # {} THEN Some(DigitsVal(SubSeq(t, at, at + 3)))
             ELSE IF t # <<>> /\ AllDigits(t) THEN Some(DigitsVal(t))
             ELSE IF Len(date_parts) >= 3
                  THEN PyIntText(date_parts[Len(date_parts)])
             ELSE None

\* %B: the number of the month named, 0 when the text names none.
MonthNumber(s) == IF Lower(s) = <<"j", "u", "l", "y">> THEN 7 ELSE 0

\* parse_date(date_text): strptime(date_text, '%d %B %Y'), whose pattern is
\* (3[0-1]|[1-2]\d|0[1-9]|[1-9]| [1-9])\s+(month)\s+(\d\d\d\d) and must use
\* the whole text; year 0 is no date.
parse_date(date_text) ==
    LET padded == date_text # <<>> /\ Head(date_text) = " "
        body == IF padded THEN Tail(date_text) ELSE date_text
        parts == Split(body)
        day == IF AllDigits(parts[1]) THEN DigitsVal(parts[1]) ELSE 0
        year == IF AllDigits(parts[3]) THEN DigitsVal(parts[3]) ELSE 0
    IN  IF /\ body # <<>>
           /\ Head(body) # " "
           /\ body[Len(body)] # " "
           /\ Len(parts) = 3
           /\ Len(parts[1]) <= (IF padded THEN 1 ELSE 2)
           /\ day \in (IF Len(parts[1]) = 1 \/ Head(parts[1]) = "0"
                       THEN 1..9 ELSE 10..31)
           /\ MonthNumber(parts[2]) # 0
           /\ Len(parts[3]) = 4
           /\ year >= 1
        THEN Some(<<year, MonthNumber(parts[2]), day>>)
        ELSE None

Billion == <<"b", "i", "l", "l", "i", "o", "n">>

Million == <<"m", "i", "l", "l", "i", "o", "n">>

\* streams_text of a row: the measure cell cut at the first "[", stripped,
\* lower-cased.
StreamsText(cols) == Lower(Strip(BeforeBracket(cols[4])))

\* The streams of a row: [raised |-> TRUE] when None * 1e9 raises TypeError.
Streams(cols) ==
    LET t == StreamsText(cols)
        unit(word, n) ==
            LET f == safe_float(Some(Remove(t, <<" ">> \o word)))
            IN  IF f = None THEN [raised |-> TRUE, value |-> None]
                ELSE [raised |-> FALSE, value |-> Some(Times10(f[1], n))]
    IN  IF Contains(t, Billion) THEN unit(Billion, 9)
        ELSE IF Contains(t, Million) THEN unit(Million, 6)
        ELSE [raised |-> FALSE, value |-> safe_float(Some(Remove(t, <<",">>)))]

\* What one pass of the loop body makes of a row before it builds the
\* record: the row is passed over (fewer than 6 cells), raises inside the try
\* (logged, skipped), or yields the fields of a record.  row.cols are the
\* texts of its cells, row.date_span the text of the date-style span of the
\* measure cell (None: it has none).
RowFields(row) ==
    LET cols == row.cols
    IN  IF Len(cols) < 6 THEN [kind |-> "short"]
        ELSE LET streams == Streams(cols)
             IN  IF streams.raised THEN [kind |-> "error"]
                 ELSE [kind |-> "record",
                       rec |-> [rank |-> safe_int(Some(cols[1])),
                                song |-> Remove(Strip(cols[2]), <<"\"">>),
                                artist |-> Strip(cols[3]),
                                streams |-> streams.value,
                                release_year |-> parse_year(cols[5]),
                                daily_average |->
                                    safe_float(Some(Remove(
                                        Lower(Strip(BeforeBracket(cols[6]))),
                                        <<",">>))),
                                record_date |->
                                    IF row.date_span = None THEN None
                                    ELSE parse_date(Strip(row.date_span[1])),
                                days_on_record |->
                                    safe_int(IF Len(cols) > 6
                                             THEN Some(Strip(BeforeBracket(cols[7])))
                                             ELSE None)]]

\* ------------------------------------------------------------ sample pages

Year2020 == <<"2", "0", "2", "0">>

July29 == <<"2", "9", " ", "J", "u", "l", "y", " ", "2", "0", "1", "9">>

RowA ==
    [cols |-> << <<"1">>, <<"\"", "S", "\"">>, <<"x">>,
                 <<"2", ".", "5", " ">> \o Billion, Year2020,
                 <<"5", " ">> \o Million >>,
     date_span |-> None]

\* The key of RowA again, with another measure.
RowB ==
    [cols |-> << <<" ", "1">>, <<"S">>, <<"x", " ">>,
                 <<"8", "0", "0", " ", "M">> \o Tail(Million)
                     \o <<"[", "1", "]">> \o July29,
                 July29 \o <<"[", "3", "]">>, <<"1", ",", "5">>,
                 <<"3", "0">> >>,
     date_span |-> Some(July29)]

RowC ==
    [cols |-> << <<"2">>, <<"Z">>, <<"x">>, <<"4", ",", "2", "0", "0">>,
                 Year2020, <<"0", ".", "5">> >>,
     date_span |-> None]

\* Too few cells.
RowShort ==
    [cols |-> << <<"3">>, <<"Z">>, <<"x">>, <<"1">> >>, date_span |-> None]

\* A rank cell that is no number.
RowBadRank ==
    [cols |-> << <<"x">>, <<"T">>, <<"x">>, <<"1", ".", "0">>,
                 <<"x">>, <<>> >>,
     date_span |-> None]

\* A unit word after a numeric part that is no number.
RowGarbled ==
    [cols |-> << <<"3">>, <<"T">>, <<"x">>, <<"x", " ">> \o Billion \o July29,
                 Year2020, <<"1">> >>,
     date_span |-> Some(July29)]

SampleRows == {RowA, RowB, RowC, RowShort, RowBadRank, RowGarbled}

\* The data rows of the target table of a fetched page.
Tables == UNION {[1..n -> SampleRows] : n \in 0..MaxRows}

\* A fetched page: one holding no "Most-streamed songs" table, or its rows.
NoTable == [found |-> FALSE, rows |-> <<>>]

Pages == {NoTable} \cup {[found |-> TRUE, rows |-> t] : t \in Tables}

\* RowFields of the sample rows, worked out once.
SampleFields == [row \in SampleRows |-> RowFields(row)]

\* rankings.append({...}): the record built of the fields, today being the
\* date the clock shows then.
Dated(out, today) ==
    IF out.kind # "record" THEN out
    ELSE [kind |-> "record",
          rec |-> [scraping_date |-> today,
                   rank |-> out.rec.rank,
                   song |-> out.rec.song,
                   artist |-> out.rec.artist,
                   streams |-> out.rec.streams,
                   release_year |-> out.rec.release_year,
                   daily_average |-> out.rec.daily_average,
                   record_date |-> out.rec.record_date,
                   days_on_record |-> out.rec.days_on_record]]

\* One pass of the loop body over a row.
RowParse(row, today) ==
    Dated(IF row \in SampleRows THEN SampleFields[row] ELSE RowFields(row),
          today)

\* ------------------------------------------------------------------- store

\* The date of a clock value, as strftime('%Y-%m-%d') of now().date() names it.
Date(t) == t \div 2

\* The first 15:00 after clock value t: schedule's next_run.
NextAt(t) == IF t % 2 = 0 THEN t + 1 ELSE t + 2

Key(r) == <<r.scraping_date, r.rank, r.song, r.artist>>

\* The rows of a list as a bag.
RECURSIVE SeqToBag(_)
SeqToBag(rows) ==
    IF rows = <<>> THEN EmptyBag
    ELSE SeqToBag(Tail(rows)) (+) SetToBag({Head(rows)})

\* The rows of table b WHERE scraping_date = d.
RowsOf(b, d) == [r \in {x \in DOMAIN b : x.scraping_date = d} |-> b[r]]

\* The rows of table b of the other dates.
RowsNotOf(b, d) == [r \in {x \in DOMAIN b : x.scraping_date # d} |-> b[r]]

\* How many rows of table b have key k.
RECURSIVE CountKey(_, _, _)
CountKey(b, k, todo) ==
    IF todo = {} THEN 0
    ELSE LET r == CHOOSE x \in todo : TRUE
         IN  (IF Key(r) = k THEN b[r] ELSE 0) + CountKey(b, k, todo \ {r})

\* The table declared without its UNIQUE constraint.
UniqueOK_Undeclared(b) == TRUE

\* UNIQUE(scraping_date, rank, song, artist) of table b.
UniqueOK(b) == \A r \in DOMAIN b : CountKey(b, Key(r), DOMAIN b) = 1

\* The rank column declared without NOT NULL.
NotNullOK_Undeclared(b) == TRUE

\* rank INTEGER NOT NULL of table b (the other NOT NULL columns always hold
\* a date or a string).
NotNullOK(b) == \A r \in DOMAIN b : r.rank # None

\* The run without its DELETE.
DeleteWhere_Nothing(b, today) == b

\* DELETE FROM spotify_records WHERE scraping_date = :today
DeleteWhere(b, today) == RowsNotOf(b, today)

\* df.to_sql(if_exists='append'): the table after the rows are added.
Appended(b, rows) == b (+) SeqToBag(rows)

\* ------------------------------------------------------------------- state

VARIABLES
    clock,        \* now(), in half-days
    pc,           \* where the process is
    trigger,      \* what called run_daily_task: "initial" or "scheduled"
    nextRun,      \* the clock value at which the daily job is next due
    tableExists,  \* spotify_records has been created
    store,        \* the rows of spotify_records, a bag
    deleted,      \* the date whose rows this run deleted (None: not yet)
    doc,          \* the page this run fetched
    idx,          \* the rows of the table gone through
    rankings,     \* the records collected by this run
    warned,       \* the rows (by position) logged as "Error procesando fila"
    outcome,      \* how the last run ended ("running" while it runs)
    pre,          \* the store as the last run found it
    last,         \* the last run that ended, if it saved a batch
    prev          \* the run that ended before this one began, likewise

vars ==
    <<clock, pc, trigger, nextRun, tableExists, store, deleted, doc, idx,
      rankings, warned, outcome, pre, last, prev>>

runVars == <<deleted, doc, idx, rankings, warned>>

NoRun == [saved |-> FALSE, date |-> None, batch |-> <<>>, others |-> EmptyBag]

\* The script is started on a fresh database file: the scheduler has the job
\* registered and the first run_daily_task() is about to be called.
Init ==
    /\ clock = 0
    /\ pc = "main"
    /\ trigger = "initial"
    /\ nextRun = NextAt(clock)
    /\ tableExists = FALSE
    /\ store = EmptyBag
    /\ deleted = None
    /\ doc = NoTable
    /\ idx = 0
    /\ rankings = <<>>
    /\ warned = {}
    /\ outcome = "none"
    /\ pre = EmptyBag
    /\ last = NoRun
    /\ prev = NoRun

\* Time passes.
Tick ==
    /\ clock < MaxTick
    /\ clock' = clock + 1
    /\ UNCHANGED <<pc, trigger, nextRun, tableExists, store, runVars, outcome,
                   pre, last, prev>>

\* run_daily_task() is entered: the run before it becomes the previous one.
Begin(how) ==
    /\ pc' = "create_database"
    /\ trigger' = how
    /\ prev' = last
    /\ pre' = store
    /\ outcome' = "running"
    /\ deleted' = None
    /\ doc' = NoTable
    /\ idx' = 0
    /\ rankings' = <<>>
    /\ warned' = {}
    /\ UNCHANGED <<clock, nextRun, tableExists, store, last>>

\* The run in progress, its batch being stored.
SavedRun ==
    [saved |-> TRUE, date |-> deleted, batch |-> rankings,
     others |-> RowsNotOf(pre, deleted[1])]

\* An exception leaves run_daily_task (it re-raises), and with it the
\* interpreter: neither line 357 nor the while loop catches it.
Leave(what, run) ==
    /\ pc' = "crashed"
    /\ outcome' = what
    /\ last' = run
    /\ UNCHANGED <<clock, trigger, nextRun, tableExists, runVars, pre, prev>>

\* The same, of a run that has stored no batch.
Raise(what) == Leave(what, NoRun)

\* run_daily_task() returns: the loop is entered or gone on with; schedule
\* sets the job's next run once a scheduled job has returned.
Return ==
    /\ pc' = "loop"
    /\ outcome' = "ok"
    /\ nextRun' = IF trigger = "scheduled" THEN NextAt(clock) ELSE nextRun
    /\ last' = IF rankings # <<>> THEN SavedRun ELSE NoRun
    /\ UNCHANGED <<clock, trigger, tableExists, runVars, pre, prev>>

\* The first run, right after the start.
RunInitial ==
    /\ pc = "main"
    /\ Begin("initial")

\* schedule.run_pending() finds the job due.
RunPending ==
    /\ pc = "loop"
    /\ clock >= nextRun
    /\ Begin("scheduled")

\* create_database(): CREATE TABLE IF NOT EXISTS.
CreateDatabase ==
    /\ pc = "create_database"
    /\ tableExists' = TRUE
    /\ pc' = "delete"
    /\ UNCHANGED <<clock, trigger, nextRun, store, runVars, outcome, pre, last,
                   prev>>

\* create_database() logs and re-raises what the engine raised.
CreateDatabaseFails ==
    /\ pc = "create_database"
    /\ Raise("create_failed")
    /\ UNCHANGED store

\* The DELETE of today's rows, committed on its own connection.
DeleteToday ==
    /\ pc = "delete"
    /\ tableExists
    /\ store' = DeleteWhere(store, Date(clock))
    /\ deleted' = Some(Date(clock))
    /\ pc' = "fetch"
    /\ UNCHANGED <<clock, trigger, nextRun, tableExists, doc, idx, rankings,
                   warned, outcome, pre, last, prev>>

\* The DELETE raises (the storage is not available).
DeleteTodayFails ==
    /\ pc = "delete"
    /\ Raise("delete_failed")
    /\ UNCHANGED store

\* requests.get and raise_for_status succeed and the page holds the table
\* under the "Most-streamed songs" heading.
Fetch ==
    /\ pc = "fetch"
    /\ \E page \in Pages : page.found /\ doc' = page
    /\ pc' = "rows"
    /\ UNCHANGED <<clock, trigger, nextRun, tableExists, store, deleted, idx,
                   rankings, warned, outcome, pre, last, prev>>

\* requests.get raises, or the status is no success.
FetchFails ==
    /\ pc = "fetch"
    /\ Raise("network")
    /\ UNCHANGED store

\* The page fetched holds no such table: ValueError.
LocateFails ==
    /\ pc = "fetch"
    /\ NoTable \in Pages
    /\ Raise("structure")
    /\ UNCHANGED store

\* One pass of the loop over the rows.
ProcessRow ==
    /\ pc = "rows"
    /\ idx < Len(doc.rows)
    /\ LET out == RowParse(doc.rows[idx + 1], Date(clock))
       IN  /\ rankings' = IF out.kind = "record"
                          THEN Append(rankings, out.rec) ELSE rankings
           /\ warned' = IF out.kind = "error"
                        THEN warned \cup {idx + 1} ELSE warned
    /\ idx' = idx + 1
    /\ UNCHANGED <<clock, pc, trigger, nextRun, tableExists, store, deleted,
                   doc, outcome, pre, last, prev>>

AtSave == pc = "rows" /\ idx = Len(doc.rows)

\* to_sql appends the records in one transaction, which commits; the charts
\* are to be drawn next.
Save ==
    /\ AtSave
    /\ rankings # <<>>
    /\ UniqueOK(Appended(store, rankings))
    /\ NotNullOK(Appended(store, rankings))
    /\ store' = Appended(store, rankings)
    /\ pc' = "charts"
    /\ UNCHANGED <<clock, trigger, nextRun, tableExists, runVars, outcome, pre,
                   last, prev>>

\* generate_daily_charts() returns: it has drawn the charts, or has caught
\* and logged what was raised once the connection was open.
Charts ==
    /\ pc = "charts"
    /\ Return
    /\ UNCHANGED store

\* sqlite3.connect raises (or Ctrl+C arrives in it): the finally closes a
\* connection that was never bound, and the UnboundLocalError leaves
\* generate_daily_charts, the batch being stored already.
ChartsFails ==
    /\ pc = "charts"
    /\ Leave("charts_failed", SavedRun)
    /\ UNCHANGED store

\* A constraint rejects a row: IntegrityError, the transaction rolls back.
SaveRejected ==
    /\ AtSave
    /\ rankings # <<>>
    /\ ~(UniqueOK(Appended(store, rankings))
           /\ NotNullOK(Appended(store, rankings)))
    /\ Raise("integrity")
    /\ UNCHANGED store

\* to_sql raises for another reason (the storage is not available).
SaveFails ==
    /\ AtSave
    /\ rankings # <<>>
    /\ Raise("insert_failed")
    /\ UNCHANGED store

\* "No se encontraron datos para guardar"
SaveNothing ==
    /\ AtSave
    /\ rankings = <<>>
    /\ Return
    /\ UNCHANGED store

\* The process is gone, and what it held with it.
Exited ==
    /\ trigger' = "initial"
    /\ deleted' = None
    /\ doc' = NoTable
    /\ idx' = 0
    /\ rankings' = <<>>
    /\ warned' = {}
    /\ outcome' = "none"
    /\ pre' = EmptyBag
    /\ prev' = NoRun
    /\ UNCHANGED <<clock, tableExists, store>>

\* Ctrl+C: KeyboardInterrupt is no Exception, so that neither handler of a
\* run catches or logs it.  In the loop (a scheduled run included) it is
\* caught with "Scraper detenido", in the first run by nothing: the process
\* ends either way; a run cut short before the charts has stored no batch.
Interrupt ==
    /\ pc \notin {"crashed", "stopped"}
    /\ pc' = "stopped"
    /\ last' = IF pc \in {"main", "loop"} THEN last
                ELSE IF pc = "charts" THEN SavedRun
                ELSE NoRun
    /\ Exited
    /\ UNCHANGED nextRun

\* The script is started again, on the database file as it is.
Restart ==
    /\ pc \in {"crashed", "stopped"}
    /\ pc' = "main"
    /\ nextRun' = NextAt(clock)
    /\ Exited
    /\ UNCHANGED last

Next ==
    \/ Tick
    \/ RunInitial
    \/ RunPending
    \/ CreateDatabase
    \/ CreateDatabaseFails
    \/ DeleteToday
    \/ DeleteTodayFails
    \/ Fetch
    \/ FetchFails
    \/ LocateFails
    \/ ProcessRow
    \/ Save
    \/ Charts
    \/ ChartsFails
    \/ SaveRejected
    \/ SaveFails
    \/ SaveNothing
    \/ Interrupt
    \/ Restart

Spec == Init /\ [][Next]_vars

\* ------------------------------------------------------------------ claims

\* A run has ended at the save step or after it: every row was gone through.
ReachedSave == outcome \in {"ok", "integrity", "insert_failed", "charts_failed"}

\* The batch of the run (in progress or the last ended) is stored.
BatchStored == pc = "charts" \/ outcome \in {"ok", "charts_failed"}

RunFailed == outcome \notin {"none", "running", "ok"}

Dates == 0..Date(MaxTick)

\* Two records of the batch share a key and differ in streams.
ClashIn(rows) ==
    \E i, j \in 1..Len(rows) :
        /\ i # j
        /\ Key(rows[i]) = Key(rows[j])
        /\ rows[i].streams # rows[j].streams

\* A row the loop makes a storable record of.
WellFormed(row) ==
    /\ Len(row.cols) >= 6
    /\ safe_int(Some(row.cols[1])) # None
    /\ ~Streams(row.cols).raised

\* C1: when a run fails at the insert (a constraint rejects it or the storage
\* fails), the store holds for the run's date exactly the rows it held before
\* the run started.
AtomicReplace ==
    outcome \in {"integrity", "insert_failed"}
        => RowsOf(store, deleted[1]) = RowsOf(pre, deleted[1])

\* C2: a run that deletes date D and collects batch R, right after a run that
\* deleted D and saved R, meets no constraint error and leaves exactly R for
\* D and the rows of every other date as they were before the two runs.
IdempotentRerun ==
    (/\ prev.saved
     /\ prev.date = deleted
     /\ prev.batch = rankings
     /\ outcome \in {"ok", "integrity", "charts_failed"})
        => /\ outcome # "integrity"
           /\ RowsOf(store, deleted[1]) = SeqToBag(rankings)
           /\ RowsNotOf(store, deleted[1]) = prev.others

\* C2 witness: the second of two such runs has saved a batch of two records
\* beside the rows of another date.
IdempotentRerunReached ==
    /\ prev.saved
    /\ prev.date = deleted
    /\ prev.batch = rankings
    /\ outcome = "ok"
    /\ Len(rankings) = 2
    /\ prev.others # EmptyBag

\* C3: no two stored rows have the same (scraping_date, rank, song, artist),
\* and a batch holding two records of one key is not saved.
UniqueKeys ==
    /\ \A r \in DOMAIN store : store[r] = 1
    /\ \A r1, r2 \in DOMAIN store : Key(r1) = Key(r2) => r1 = r2
    /\ ClashIn(rankings) => ~BatchStored

\* C3 witness: a batch with two records of one key and different streams was
\* rejected, the store holding rows.
ClashRejected ==
    /\ outcome = "integrity"
    /\ ClashIn(rankings)
    /\ \A k \in 1..Len(rankings) : rankings[k].rank # None
    /\ store # EmptyBag

\* C4: after a run that fails with a network error or because the table is
\* not found, the store is the store the run found.
FetchFailureKeepsStore ==
    outcome \in {"network", "structure"} => store = pre

\* C5: with at most one row that is not well-formed (and the others of
\* distinct keys), a run that reaches the insert with the storage available
\* does not fail and the store holds a record of every well-formed row.
BadRowIsolated ==
    LET rows == doc.rows
        good == {i \in 1..Len(rows) : WellFormed(rows[i])}
    IN  (/\ outcome \in {"ok", "integrity"}
         /\ Cardinality(good) >= Len(rows) - 1
         /\ \A i, j \in good :
                i # j => Key(RowParse(rows[i], 0).rec)
                           # Key(RowParse(rows[j], 0).rec))
            => /\ outcome = "ok"
               /\ \A i \in good :
                      \E d \in Dates : RowParse(rows[i], d).rec \in DOMAIN store

\* C6: after a run that fails the process is still in its scheduling loop.
LoopSurvivesFailure == RunFailed => pc = "loop"

\* C7: a run that goes through every row and collects no record does not
\* fail and leaves the store as it found it.
EmptyRunKeepsStore ==
    (/\ outcome \notin {"none", "running"}
     /\ doc.found
     /\ idx = Len(doc.rows)
     /\ rankings = <<>>)
        => outcome = "ok" /\ store = pre

\* C8: a row gone through that has at least 6 cells and a unit word after a
\* numeric part that is no number is not skipped: it yields a record whose
\* streams is None.
NullMeasureKept ==
    \A i \in 1..idx :
        LET cols == doc.rows[i].cols
            t == IF Len(cols) >= 6 THEN StreamsText(cols) ELSE <<>>
            word == IF Contains(t, Billion) THEN Billion ELSE Million
        IN  (/\ Len(cols) >= 6
             /\ Contains(t, word)
             /\ safe_float(Some(Remove(t, <<" ">> \o word))) = None)
                => /\ i \notin warned
                   /\ \E k \in 1..Len(rankings) :
                          /\ rankings[k].song = Remove(Strip(cols[2]), <<"\"">>)
                          /\ rankings[k].streams = None

\* C9: every record a run collects carries the date whose rows the run
\* deleted.
OneCollectionDate ==
    \A k \in 1..Len(rankings) : rankings[k].scraping_date = deleted[1]

\* C10: every stored row has a rank, and a run whose batch holds a record
\* without one saves nothing of it.
RankNotNull ==
    /\ \A r \in DOMAIN store : r.rank # None
    /\ (ReachedSave /\ \E k \in 1..Len(rankings) : rankings[k].rank = None)
           => /\ ~BatchStored
              /\ store = DeleteWhere(pre, deleted[1])

\* C10 witness: a batch whose only fault is a record without rank, made of a
\* row whose rank cell is no number, was rejected.
NullRankRejected ==
    /\ outcome = "integrity"
    /\ Len(rankings) = 2
    /\ ~ClashIn(rankings)
    /\ \E i \in 1..idx :
           /\ Len(doc.rows[i].cols) >= 6
           /\ safe_int(Some(doc.rows[i].cols[1])) = None
    /\ \E k \in 1..Len(rankings) : rankings[k].rank = None

====
